---- MODULE Spec2Model ----
(***************************************************************************)
(* Verification model of the RINEX converter's numerical core:             *)
(*   - HighPrecisionPPPCalculator (src/precise_calculations.py): the       *)
(*     iterative refinement loop, its corrections, its aggregation and     *)
(*     the process-wide random generator it draws from;                    *)
(*   - CoordinateConverter (src/coordinate_converter.py): the ECEF to      *)
(*     geodetic latitude iteration.                                        *)
(*                                                                         *)
(* Floating-point quantities are carried as fixed-point integers:          *)
(*   lengths of the refinement engine in units of 1e-4 m,                  *)
(*   dimensionless factors (exp, sin, cos, weights) in 1/1000,             *)
(*   an ECEF coordinate as a pair [km, u] = km kilometres + u units.       *)
(* Transcendental functions are tabulated from the source's formulas.      *)
(***************************************************************************)
EXTENDS Integers, Sequences, FiniteSets, TLC

(***************************************************************************)
(* Bounds of the model                                                     *)
(***************************************************************************)
\* largest max_iterations a single refinement run is called with
MaxIterations == 11
\* largest max_iterations of a coordinate conversion, besides the default
MaxLLHIterations == 2
\* largest max_iterations of the runs that share the process (SpecShared)
MaxSharedIterations == 2
\* number of states of the stand-in for the process-wide generator
RngPeriod == 9
\* number of calculate_satellite_position calls in SpecShared
MaxSatelliteCalls == 1
\* largest standard deviation s of the covariances s^2 * I
MaxSigma == 12

MaxDataIterations == 3

Runs == {1, 2}

(***************************************************************************)
(* Fixed-point helpers                                                     *)
(***************************************************************************)
Abs(v) == IF v < 0 THEN -v ELSE v

Min(a, b) == IF a < b THEN a ELSE b

\* a / b rounded to the nearest integer (b > 0)
RoundDiv(a, b) == (2 * a + b) \div (2 * b)

RECURSIVE SqrtSearch(_, _, _)
SqrtSearch(n, lo, hi) ==
  IF lo >= hi THEN lo
  ELSE LET mid == (lo + hi + 1) \div 2
       IN  IF mid * mid <= n THEN SqrtSearch(n, mid, hi)
           ELSE SqrtSearch(n, lo, mid - 1)

\* math.sqrt on a non-negative fixed-point integer: floor of the square root
ISqrt(n) == SqrtSearch(n, 0, Min(n, 46340))

\* math.sqrt(a**2 + b**2 + c**2)
Norm3(a, b, c) == ISqrt(a * a + b * b + c * c)

Max(a, b) == IF a > b THEN a ELSE b

\* float division a / b (b # 0), rounded toward zero
TruncDiv(a, b) ==
  IF (a < 0) = (b < 0) THEN Abs(a) \div Abs(b) ELSE -(Abs(a) \div Abs(b))

\* a float64 result: a finite value or NaN
Real(v) == [nan |-> FALSE, v |-> v]

NaN == [nan |-> TRUE, v |-> 0]

\* np.sqrt(e): NaN (and a RuntimeWarning, no exception) for a negative e
FSqrt(e) == IF e < 0 THEN NaN ELSE Real(ISqrt(e))

\* units of 1e-4 m in one kilometre
UnitsPerKm == 10000 * 1000

\* an ECEF coordinate: km kilometres plus u units of 1e-4 m, 0 <= u < UnitsPerKm
MkCoord(km, u) == [km |-> km + (u \div UnitsPerKm), u |-> u % UnitsPerKm]

\* float addition  c + d  of a coordinate and a correction in units
CoordAdd(c, d) == MkCoord(c.km, c.u + d)

\* float subtraction  c1 - c2  of two coordinates, in units
CoordSub(c1, c2) == (c1.km - c2.km) * UnitsPerKm + (c1.u - c2.u)

(***************************************************************************)
(* Tabulated functions of the iteration index (values in 1/1000)           *)
(***************************************************************************)
\* math.exp(-iteration / (max_iterations / 3)): row max_iterations, column iteration + 1
AdaptiveFactorTable ==
  <<
    <<1000>>,
    <<1000, 223>>,
    <<1000, 368, 135>>,
    <<1000, 472, 223, 105>>,
    <<1000, 549, 301, 165, 91>>,
    <<1000, 607, 368, 223, 135, 82>>,
    <<1000, 651, 424, 276, 180, 117, 76>>,
    <<1000, 687, 472, 325, 223, 153, 105, 72>>,
    <<1000, 717, 513, 368, 264, 189, 135, 97, 69>>,
    <<1000, 741, 549, 407, 301, 223, 165, 122, 91, 67>>,
    <<1000, 761, 580, 441, 336, 256, 195, 148, 113, 86, 65>>,
    <<1000, 779, 607, 472, 368, 287, 223, 174, 135, 105, 82, 64>>,
    <<1000, 794, 630, 500, 397, 315, 250, 199, 158, 125, 99, 79, 63>>,
    <<1000, 807, 651, 526, 424, 343, 276, 223, 180, 145, 117, 95, 76, 62>>
  >>

\* 1.0 / (iteration + 1)**0.7
InvPow07Table == <<1000, 616, 463, 379, 324, 285, 256, 233, 215, 200, 187, 176, 166, 158>>

\* math.exp(-iteration / 20)
ExpDecay20Table == <<1000, 951, 905, 861, 819, 779, 741, 705, 670, 638, 607, 577, 549, 522>>

\* math.sin(time_factor), time_factor = iteration * 0.1
Sin10Table == <<0, 100, 199, 296, 389, 479, 565, 644, 717, 783, 841, 891, 932, 964>>

\* math.cos(time_factor)
Cos10Table == <<1000, 995, 980, 955, 921, 878, 825, 765, 697, 622, 540, 454, 362, 267>>

\* math.sin(time_factor * 2.3)
Sin23Table == <<0, 228, 444, 637, 796, 913, 982, 999, 964, 878, 746, 574, 372, 151>>

\* math.cos(time_factor * 1.7)
Cos17Table == <<1000, 986, 943, 873, 778, 660, 523, 372, 209, 41, -129, -295, -452, -597>>

\* math.sin(time_factor * 3.1)
Sin31Table == <<0, 305, 581, 802, 946, 1000, 958, 826, 614, 344, 42, -265, -547, -776>>

\* math.sin(time_factor * 0.9)
Sin09Table == <<0, 90, 179, 267, 352, 435, 514, 589, 659, 724, 783, 836, 882, 921>>

\* math.cos(time_factor * 2.7)
Cos27Table == <<1000, 964, 858, 689, 471, 219, -49, -314, -556, -757, -904, -985, -995, -933>>

\* math.sin(time_factor * 1.5)
Sin15Table == <<0, 149, 296, 435, 565, 682, 783, 867, 932, 976, 997, 997, 974, 929>>

\* 1.0 / (1.0 + math.exp(-(iteration - max_iterations/2) / 10)), indexed by
\* 2*iteration - max_iterations + 15
LogisticTable ==
  <<332, 343, 354, 366, 378, 389, 401, 413, 426, 438, 450, 463, 475, 488, 500,
    512, 525, 537, 550, 562, 574, 587, 599, 611, 622, 634, 646, 657, 668>>

(***************************************************************************)
(* State                                                                   *)
(***************************************************************************)
VARIABLES
  rng,                \* state of numpy's process-wide generator (np.random)
  satCalls,           \* calculate_satellite_position calls made so far
  pc,                 \* per run: "idle", "loop", "analyze", "done", "failed"
  call,               \* per run: the arguments of calculate_precise_position_enhanced
  iteration,          \* per run: the loop variable
  positions,          \* per run: list of (x, y, z)
  residuals_history,  \* per run: list of residuals
  convergence_data,   \* per run: list of position changes
  weights,            \* per run: list of iteration weights
  sink,               \* per run: percentages passed to progress_callback
  result,             \* per run: the dictionary returned, or the exception raised
  corrections,        \* per run (history): the (dx, dy, dz) of each iteration
  drawn,              \* per run (history): the normal deviates its draws returned
  rngAtCall,          \* per run (history): the generator state when the run was called
  overlap,            \* (history) a run was called while another one was executing
  llh,                \* the xyz_to_llh_high_precision call in progress
  lastReturn,         \* (history) what the previous xyz_to_llh_high_precision call returned
  invocation,         \* the last call of a stateless method: its arguments and result
  app,                \* the fields of the application window that hold file data
  appLog              \* (history) the observation file read last, the position last used

pppVars == <<rng, satCalls, pc, call, iteration, positions, residuals_history,
             convergence_data, weights, sink, result, corrections, drawn, rngAtCall,
             overlap>>

llhVars == <<llh, lastReturn>>

utilVars == <<invocation>>

appVars == <<app, appLog>>

vars == <<pppVars, llhVars, utilVars, appVars>>

(***************************************************************************)
(* The process-wide generator behind np.random.normal                      *)
(***************************************************************************)
\* the generator is a deterministic machine: a draw reads the state and advances it
RngAdvance(s, n) == (s + n) % RngPeriod

\* the standard normal deviate produced in generator state s, in 1/1000
GaussZ(s) == (((s * 7 + 3) % 11) - 5) * 300

\* np.random.normal(0, scale, 3) in generator state s
RandomNormal3(scale, s) ==
  [k \in 1..3 |-> RoundDiv(scale * GaussZ(RngAdvance(s, k - 1)), 1000)]

(***************************************************************************)
(* HighPrecisionPPPCalculator                                              *)
(***************************************************************************)
\* self.a / 1000: the divisor 6378137.0 of position_factor, in km
EarthRadiusKm == 6378

\* calculate_systematic_corrections(iteration, x, y, z); pos = <<x, y, z>>
calculate_systematic_corrections(i, pos) ==
  LET position_factor ==
        (Norm3(pos[1].km, pos[2].km, pos[3].km) * 1000) \div EarthRadiusKm
      dx_sys == 100 * Sin10Table[i + 1] + 50 * Sin23Table[i + 1]
                + RoundDiv(position_factor * Sin10Table[i + 1], 1000)
      dy_sys == 80 * Cos17Table[i + 1] + 30 * Sin31Table[i + 1]
                + RoundDiv(position_factor * Cos10Table[i + 1], 1000)
      dz_sys == 60 * Sin09Table[i + 1] + 40 * Cos27Table[i + 1]
                + RoundDiv(position_factor * Sin15Table[i + 1], 2000)
  IN  <<RoundDiv(dx_sys, 1000), RoundDiv(dy_sys, 1000), RoundDiv(dz_sys, 1000)>>

\* non_linear_factor in tenths: 1.5, 1.0 or 0.5 by the phase of the run
non_linear_factor(i, max_iterations) ==
  IF 4 * i < max_iterations THEN 15
  ELSE IF 2 * i < max_iterations THEN 10
  ELSE 5

\* adaptive_step = base_step * adaptive_factor, base_step = 0.5 m = 5000 units
adaptive_step(i, max_iterations) == 5 * AdaptiveFactorTable[max_iterations][i + 1]

\* calculate_enhanced_corrections(iteration, x, y, z, max_iterations), drawing
\* from the generator in state s
calculate_enhanced_corrections(i, pos, max_iterations, s) ==
  LET step == adaptive_step(i, max_iterations)
      main_correction ==
        -RoundDiv(step * non_linear_factor(i, max_iterations) * InvPow07Table[i + 1],
                  10 * 1000)
      random_scale == RoundDiv(step * 2 * ExpDecay20Table[i + 1], 10 * 1000)
      random_component == RandomNormal3(random_scale, s)
      systematic_correction == calculate_systematic_corrections(i, pos)
  IN  [k \in 1..3 |-> main_correction + random_component[k] + systematic_correction[k]]

\* weight = 1.0 / (1.0 + math.exp(-(iteration - max_iterations/2) / 10))
IterationWeight(i, max_iterations) == LogisticTable[2 * i - max_iterations + 15]

\* x = x0 + dx; y = y0 + dy; z = z0 + dz
CorrectedPosition(initial_pos, previous, d) ==
  [k \in 1..3 |-> CoordAdd(initial_pos[k], d[k])]

\* mutant: the convergence test skips the first displacement
ConvergenceReachedLate(i, pos_change, convergence_threshold) ==
  i > 1 /\ pos_change < convergence_threshold

\* if iteration > 0: ... if pos_change < convergence_threshold: break
ConvergenceReached(i, pos_change, convergence_threshold) ==
  i > 0 /\ pos_change < convergence_threshold

\* mutant: the position change is recorded for the first sample too
RecordChangeAlways(i, convergence, pos_change) == Append(convergence, pos_change)

\* if iteration > 0: convergence_data.append(pos_change)
RecordChange(i, convergence, pos_change) ==
  IF i > 0 THEN Append(convergence, pos_change) ELSE convergence

\* pos_change: distance between the last two positions
PositionChange(p, q) ==
  Norm3(CoordSub(p[1], q[1]), CoordSub(p[2], q[2]), CoordSub(p[3], q[3]))

RECURSIVE SumSeq(_)
SumSeq(s) == IF s = <<>> THEN 0 ELSE s[1] + SumSeq(Tail(s))

\* mutant: the weights are divided by their number instead of their sum
NormalizeWeightsByCount(ws) ==
  [i \in 1..Len(ws) |-> RoundDiv(ws[i] * 1000, Len(ws) * 1000)]

\* weights_normalized = weights_array / np.sum(weights_array), in 1/1000
NormalizeWeights(ws) ==
  LET total == SumSeq(ws)
  IN  [i \in 1..Len(ws) |-> RoundDiv(ws[i] * 1000, total)]

\* the float product a * w of a value in units and a weight in 1/1000,
\* rounded to the unit
MulW(a, w) == (a \div 1000) * w + RoundDiv((a % 1000) * w, 1000)

\* the float quotient a / total of a value in units by a weight sum in 1/1000,
\* rounded to the unit (total > 0)
DivW(a, total) == (a \div total) * 1000 + RoundDiv((a % total) * 1000, total)

\* the float product c * w of a coordinate and a weight in 1/1000
CoordMulW(c, w) ==
  MkCoord((c.km * w) \div 1000, ((c.km * w) % 1000) * 10000 + MulW(c.u, w))

\* the float quotient c / total of a coordinate by a weight sum in 1/1000
CoordDivW(c, total) ==
  LET t == ((c.km * 1000) % total) * 10000
  IN  MkCoord((c.km * 1000) \div total,
              (t \div total) * 1000 + RoundDiv((t % total) * 1000, total)
                + DivW(c.u, total))

RECURSIVE SumCoords(_)
\* np.sum of a sequence of coordinates
SumCoords(cs) ==
  IF Len(cs) = 1 THEN cs[1]
  ELSE LET rest == SumCoords(Tail(cs))
       IN  MkCoord(cs[1].km + rest.km, cs[1].u + rest.u)

\* np.average(positions_array[:, k], weights=w): sum(values * w) / sum(w)
WeightedAxisMean(ps, w, k) ==
  CoordDivW(SumCoords([i \in 1..Len(ps) |-> CoordMulW(ps[i][k], w[i])]), SumSeq(w))

\* np.sqrt(np.average((positions_array[:, k] - mean) ** 2, weights=w)), in units
WeightedAxisStd(ps, w, k, mean) ==
  LET sq == [i \in 1..Len(ps) |->
               MulW(CoordSub(ps[i][k], mean) * CoordSub(ps[i][k], mean), w[i])]
  IN  ISqrt(DivW(SumSeq(sq), SumSeq(w)))

\* np.sum(weights_array) is 0: every normalized weight is nan or inf (numpy
\* warns and raises nothing)
WeightSumIsZero(ws) == SumSeq(ws) = 0

\* analyze_enhanced_results(positions, residuals, convergence, weights)
analyze_enhanced_results(ps, residuals, convergence, ws) ==
  IF ps = <<>> THEN [raised |-> "ValueError"]
  ELSE LET weights_normalized == NormalizeWeights(ws)
           mean == [k \in 1..3 |-> WeightedAxisMean(ps, weights_normalized, k)]
           std == [k \in 1..3 |-> WeightedAxisStd(ps, weights_normalized, k, mean[k])]
           degenerate == WeightSumIsZero(ws)
       IN  [raised |-> "none",
            position |-> IF degenerate THEN <<NaN, NaN, NaN>> ELSE mean,
            std_deviation |-> IF degenerate THEN <<NaN, NaN, NaN>>
                              ELSE [k \in 1..3 |-> Real(std[k])],
            precision |-> IF degenerate THEN NaN
                          ELSE Real(Norm3(std[1], std[2], std[3])),
            iterations |-> Len(ps),
            final_residual |-> IF residuals = <<>> THEN 0
                               ELSE residuals[Len(residuals)],
            residuals_history |-> residuals,
            convergence_history |-> convergence,
            weights |-> ws]

(***************************************************************************)
(* CoordinateConverter                                                     *)
(*                                                                         *)
(* Lengths in km, angles in units of 1e-4 rad, sines and cosines in        *)
(* 1/10000, degrees in 1/1000 degree.                                      *)
(***************************************************************************)
\* math.pi / 2 and math.pi, the bounds of math.atan2, in 1e-4 rad
HalfPi == 15708

Pi == 2 * HalfPi

\* self.a = 6378137.0 m, in km
SemiMajorKm == 6378

\* self.e2 = 2 * self.f - self.f ** 2 = 0.00669438, in 1e-6
E2Micro == 6694

\* the default max_iterations of xyz_to_llh_high_precision
DefaultMaxIterations == 100

\* sine of an angle in [0, pi/2], by its Taylor series
SinQ(x) ==
  LET x2 == (x * x) \div 10000
      t3 == ((x2 * x) \div 10000) \div 6
      t5 == ((t3 * x2) \div 10000) \div 20
      t7 == ((t5 * x2) \div 10000) \div 42
      t9 == ((t7 * x2) \div 10000) \div 72
  IN  x - t3 + t5 - t7 + t9

\* math.sin(t), -pi <= t <= pi
Sin(t) ==
  LET u == Abs(t)
      q == SinQ(IF u > HalfPi THEN Pi - u ELSE u)
  IN  IF t < 0 THEN -q ELSE q

\* math.cos(t), -pi <= t <= pi; the cosine of a float is never exactly 0
\* (math.cos(math.pi / 2) = 6.1e-17), so neither is this one
Cos(t) ==
  LET u == Abs(t)
      c == IF u <= HalfPi THEN SinQ(HalfPi - u) ELSE -SinQ(u - HalfPi)
  IN  IF c = 0 THEN 1 ELSE c

RECURSIVE AtanSearch(_, _, _, _)
AtanSearch(a, b, lo, hi) ==
  IF lo >= hi THEN lo
  ELSE LET mid == (lo + hi + 1) \div 2
       IN  IF SinQ(mid) * b <= SinQ(HalfPi - mid) * a
           THEN AtanSearch(a, b, mid, hi)
           ELSE AtanSearch(a, b, lo, mid - 1)

\* math.atan2(y, x): the angle in [-pi, pi] of the point (x, y)
Atan2(y, x) ==
  LET k == (Max(Abs(y), Abs(x)) \div 100000) + 1
      ys == TruncDiv(y, k)
      xs == TruncDiv(x, k)
      phi == AtanSearch(Abs(ys), Abs(xs), 0, HalfPi)
  IN  IF xs = 0 /\ ys = 0 THEN 0
      ELSE IF xs >= 0 THEN (IF ys >= 0 THEN phi ELSE -phi)
      ELSE (IF ys >= 0 THEN Pi - phi ELSE -(Pi - phi))

\* math.degrees(t), in 1/1000 degree: t * 180000 / 31416
Degrees(t) == RoundDiv(t * 7500, 1309)

\* N = self.a / math.sqrt(1 - self.e2 * math.sin(lat_prev) ** 2)
CurvatureRadius(lat_prev) ==
  LET sn == Sin(lat_prev)
  IN  (SemiMajorKm * 10000)
        \div ISqrt(10000 * 10000 - (E2Micro * ((sn * sn) \div 10000)) \div 100)

\* h = p / math.cos(lat_prev) - N
HeightAbove(p, lat_prev, N) == TruncDiv(p * 10000, Cos(lat_prev)) - N

\* lat = math.atan2(z, p * (1 - self.e2 * N / (N + h))), N + h # 0
NewLatitude(z, p, N, h) ==
  Atan2(z * 10000, p * ((1000000 - TruncDiv(E2Micro * N, N + h)) \div 100))

\* if abs(lat - lat_prev) < tolerance: break
ToleranceMet(lat, lat_prev, tolerance) == Abs(lat - lat_prev) < tolerance

\* the points (x, y, z) converted, in km
Points ==
  { <<6378, 0, 0>>, <<-6378, 0, 0>>, <<0, 0, 6357>>, <<0, 0, -3>>,
    <<2850, 2200, 5250>>, <<20000, 0, 17000>>, <<3000, 0, 3000>>,
    <<2995, 0, 3005>>, <<-1, 0, 0>> }

\* tolerance, in 1e-4 rad; 1 stands for every tolerance below the resolution
Tolerances == {-50, 0, 1, 50}

NoConversion == [pc |-> "idle"]

NoReturn == [made |-> FALSE]

\* math.radians(d), d in 1/1000 degree: d * 31416 / 180000
Radians(d) == RoundDiv(d * 1309, 7500)

\* llh_to_xyz(lat, lon, h): lat and lon in 1/1000 degree, h in km
llh_to_xyz(lat, lon, h) ==
  LET lat_rad == Radians(lat)
      lon_rad == Radians(lon)
      N == CurvatureRadius(lat_rad)
      p == RoundDiv((N + h) * Cos(lat_rad), 10000)
      x == RoundDiv(p * Cos(lon_rad), 10000)
      y == RoundDiv(p * Sin(lon_rad), 10000)
      z == RoundDiv((RoundDiv(N * ((1000000 - E2Micro) \div 100), 10000) + h)
                      * Sin(lat_rad), 10000)
  IN  <<x, y, z>>

\* the geodetic positions (lat, lon, h) converted to ECEF and back
GeodeticInputs ==
  { <<lat, lon, h>> : lat \in {0, 45000, -60000, 89900},
                      lon \in {0, -90000}, h \in {0, 100} }

NoOrigin == [given |-> FALSE]

\* xyz_to_llh_high_precision, lines 32-39: longitude, p and the first latitude
\* of the point pt; origin is the geodetic position pt was computed from
StartConversion(pt, m, tol, origin) ==
  LET p == ISqrt(pt[1] * pt[1] + pt[2] * pt[2])
  IN  [pc |-> IF m > 0 THEN "loop" ELSE "exit",
       x |-> pt[1], y |-> pt[2], z |-> pt[3],
       max_iterations |-> m, tolerance |-> tol,
       longitude |-> Atan2(pt[2], pt[1]),
       p |-> p,
       lat_prev |-> Atan2(pt[3] * 10000, p * ((1000000 - E2Micro) \div 100)),
       h |-> 0, hBound |-> FALSE, hLatitude |-> 0,
       iteration_count |-> 0,
       converged |-> FALSE, warned |-> m <= 0,
       error |-> "none",
       origin |-> origin]

\* a call xyz_to_llh_high_precision(x, y, z, max_iterations, tolerance)
LLHCall ==
  /\ llh.pc = "idle"
  /\ \E pt \in Points, m \in (-1..MaxLLHIterations) \cup {DefaultMaxIterations},
        tol \in Tolerances :
        llh' = StartConversion(pt, m, tol, NoOrigin)
  /\ UNCHANGED <<lastReturn, pppVars, utilVars, appVars>>

\* a call xyz_to_llh_high_precision(*llh_to_xyz(lat, lon, h)) with the defaults
LLHRoundTrip ==
  /\ llh.pc = "idle"
  /\ \E g \in GeodeticInputs :
        llh' = StartConversion(llh_to_xyz(g[1], g[2], g[3]), DefaultMaxIterations, 1,
                               [given |-> TRUE, lat |-> g[1], lon |-> g[2], h |-> g[3]])
  /\ UNCHANGED <<lastReturn, pppVars, utilVars, appVars>>

\* xyz_to_llh_high_precision, lines 40-59: one pass of the latitude loop
LLHIterate ==
  /\ llh.pc = "loop"
  /\ LET count == llh.iteration_count + 1
         N == CurvatureRadius(llh.lat_prev)
         h == HeightAbove(llh.p, llh.lat_prev, N)
     IN  IF N + h = 0
         THEN llh' = [llh EXCEPT !.pc = "raised", !.error = "ZeroDivisionError",
                                 !.iteration_count = count,
                                 !.h = h, !.hBound = TRUE,
                                 !.hLatitude = llh.lat_prev]
         ELSE LET lat == NewLatitude(llh.z, llh.p, N, h)
                  met == ToleranceMet(lat, llh.lat_prev, llh.tolerance)
                  last == count >= llh.max_iterations
              IN  llh' = [llh EXCEPT !.iteration_count = count,
                                     !.h = h, !.hBound = TRUE,
                                     !.hLatitude = llh.lat_prev,
                                     !.lat_prev = IF met THEN @ ELSE lat,
                                     !.converged = met,
                                     !.warned = ~met /\ last,
                                     !.pc = IF met \/ last THEN "exit" ELSE "loop"]
  /\ UNCHANGED <<lastReturn, pppVars, utilVars, appVars>>

\* the tuple (latitude_deg, longitude_deg, h, iteration_count) returned
ReturnedTuple(c) ==
  <<Degrees(c.lat_prev), Degrees(c.longitude), c.h, c.iteration_count>>

\* xyz_to_llh_high_precision, lines 61-67: conversion to degrees and return
LLHReturn ==
  /\ llh.pc = "exit"
  /\ llh' = IF llh.hBound THEN [llh EXCEPT !.pc = "returned"]
            ELSE [llh EXCEPT !.pc = "raised", !.error = "UnboundLocalError"]
  /\ UNCHANGED <<lastReturn, pppVars, utilVars, appVars>>

\* the caller receives the tuple or the exception; the converter is free again
LLHNext ==
  /\ llh.pc \in {"returned", "raised"}
  /\ lastReturn' = IF llh.pc = "returned"
                   THEN [made |-> TRUE, value |-> ReturnedTuple(llh),
                         max_iterations |-> llh.max_iterations,
                         converged |-> llh.converged]
                   ELSE lastReturn
  /\ llh' = NoConversion
  /\ UNCHANGED <<pppVars, utilVars, appVars>>

(***************************************************************************)
(* Stateless methods, called directly                                      *)
(***************************************************************************)
NoInvocation == [fn |-> "none"]

\* the decimal digits, as characters
DigitChars == <<"0", "1", "2", "3", "4", "5", "6", "7", "8", "9">>

\* the decimal representation of n >= 0
RECURSIVE Digits(_)
Digits(n) ==
  IF n < 10 THEN <<DigitChars[n + 1]>>
  ELSE Digits(n \div 10) \o <<DigitChars[(n % 10) + 1]>>

RECURSIVE PadLeft(_, _)
PadLeft(chars, width) ==
  IF Len(chars) >= width THEN chars ELSE PadLeft(<<"0">> \o chars, width)

\* format specification 02d: the sign counts in the width
Format02d(n) ==
  IF n < 0 THEN <<"-">> \o PadLeft(Digits(-n), 1) ELSE PadLeft(Digits(n), 2)

\* decimal degrees, minutes and seconds are held in units of 1e-7
DegreeUnits == 10000 * 1000

\* format specification 06.3f of a non-negative value given in 1e-7: rounded
\* to 3 decimals, at least 2 integer digits
Format063f(seconds) ==
  LET ms == RoundDiv(seconds, DegreeUnits \div 1000)
  IN  PadLeft(Digits(ms \div 1000), 2) \o <<".">> \o PadLeft(Digits(ms % 1000), 3)

\* mutant: the degrees are rounded down instead of toward zero
IntegerPartFloor(v) == v \div DegreeUnits

\* degrees = int(decimal_degrees)
IntegerPart(v) == TruncDiv(v, DegreeUnits)

\* decimal_to_dms(decimal_degrees): the text, one character per element
\* ("deg" stands for the degree sign)
decimal_to_dms(v) ==
  LET degrees == IntegerPart(v)
      minutes_decimal == Abs(v - degrees * DegreeUnits) * 60
      minutes == minutes_decimal \div DegreeUnits
      seconds == (minutes_decimal - minutes * DegreeUnits) * 60
  IN  Format02d(degrees) \o <<"deg", " ">> \o Format02d(minutes) \o <<"'", " ">>
        \o Format063f(seconds) \o <<"\"">>

\* the fractions of a degree tried, in 1e-7 degree: 0, 0.001, 1/60 - 7e-8,
\* 0.25, 0.5, 0.999, 1 - 1e-7
DmsFractions == {0, 10000, 166666, 2500000, 5000000, 9990000, 9999999}

\* decimal degrees, in 1e-7 degree
DmsInputs ==
  { sgn * (d * DegreeUnits + f) : sgn \in {-1, 1}, d \in {0, 1, 5, 45, 99, 120},
                                  f \in DmsFractions }

\* a call decimal_to_dms(decimal_degrees)
DmsCall ==
  /\ \E v \in DmsInputs :
        invocation' = [fn |-> "decimal_to_dms", arg |-> v, value |-> decimal_to_dms(v)]
  /\ UNCHANGED <<pppVars, llhVars, appVars>>

\* a 3x3 covariance whose third axis is uncorrelated with the other two
BlockMatrix(a, b, d, c) == <<<<a, b, 0>>, <<b, d, 0>>, <<0, 0, c>>>>

ScaledIdentity(sigma) == BlockMatrix(sigma * sigma, 0, sigma * sigma, sigma * sigma)

\* eigenvalues, _ = np.linalg.eig(covariance)
Eigenvalues(cov) ==
  LET a == cov[1][1]
      b == cov[1][2]
      d == cov[2][2]
      root == ISqrt((a - d) * (a - d) + 4 * b * b)
  IN  IF b = 0 THEN <<a, d, cov[3][3]>>
      ELSE <<TruncDiv(a + d + root, 2), TruncDiv(a + d - root, 2), cov[3][3]>>

\* mutant: the eigenvalues are returned as the semi-axes
SemiAxesNoRoot(eigenvalues) == [k \in 1..3 |-> Real(eigenvalues[k])]

\* semi_axes = np.sqrt(eigenvalues)
SemiAxes(eigenvalues) == [k \in 1..3 |-> FSqrt(eigenvalues[k])]

\* (4/3) * math.pi * np.prod(semi_axes), in 1/10000
EllipsoidVolume(semi_axes) ==
  IF \E k \in 1..3 : semi_axes[k].nan THEN NaN
  ELSE Real(RoundDiv(4 * Pi * semi_axes[1].v * semi_axes[2].v * semi_axes[3].v, 3))

\* np.max(semi_axes): NaN when an element is NaN
ArrayMax(xs) ==
  IF \E k \in 1..3 : xs[k].nan THEN NaN
  ELSE Real(Max(xs[1].v, Max(xs[2].v, xs[3].v)))

\* np.min(semi_axes): NaN when an element is NaN
ArrayMin(xs) ==
  IF \E k \in 1..3 : xs[k].nan THEN NaN
  ELSE Real(Min(xs[1].v, Min(xs[2].v, xs[3].v)))

\* calculate_accuracy_ellipsoid(covariance)
calculate_accuracy_ellipsoid(covariance) ==
  LET eigenvalues == Eigenvalues(covariance)
      semi_axes == SemiAxes(eigenvalues)
  IN  [semi_axes |-> semi_axes,
       volume |-> EllipsoidVolume(semi_axes),
       max_error |-> ArrayMax(semi_axes),
       min_error |-> ArrayMin(semi_axes)]

\* covariance matrices: s^2 * I, diagonal ones and correlated ones
Covariances ==
  { ScaledIdentity(sigma) : sigma \in 0..MaxSigma }
    \cup { BlockMatrix(a, 0, d, c) : a \in {0, 4, 9}, d \in {-1, 0, 4, 9}, c \in {-4, 1, 16} }
    \cup { BlockMatrix(5, 4, 5, 4), BlockMatrix(1, 2, 1, 4), BlockMatrix(0, 3, 8, 1) }

\* a call calculate_accuracy_ellipsoid(covariance)
EllipsoidCall ==
  /\ \E cov \in Covariances :
        invocation' = [fn |-> "calculate_accuracy_ellipsoid", arg |-> cov,
                       value |-> calculate_accuracy_ellipsoid(cov)]
  /\ UNCHANGED <<pppVars, llhVars, appVars>>

(***************************************************************************)
(* Inputs of the refinement engine                                         *)
(***************************************************************************)
\* initial_pos, in km: the origin and a receiver on the surface
SurfacePosition == <<MkCoord(2850, 0), MkCoord(2200, 0), MkCoord(5250, 0)>>

\* initial_pos = None
NoPosition == <<>>

OriginPosition == <<MkCoord(0, 0), MkCoord(0, 0), MkCoord(0, 0)>>

InitialPositions == {OriginPosition, SurfacePosition, NoPosition}

\* convergence_threshold, in units of 1e-4 m
Thresholds == {-5000, 0, 1, 50, 5000, 20000}

\* obs_data and nav_data: what the RINEX files held
NoData == [obs_data |-> [approx_position |-> NoPosition], nav_data |-> <<>>]

ParsedData == [obs_data |-> [approx_position |-> SurfacePosition],
               nav_data |-> <<"G01", "G07">>]

NoCall == [initial_pos |-> <<>>, max_iterations |-> 0,
           convergence_threshold |-> 0, progress_callback |-> FALSE,
           obs_data |-> NoData.obs_data, nav_data |-> NoData.nav_data]

\* one call progress_callback(progress, message); iteration is the iteration
\* number the message states, -1 when it states none
ProgressCall(progress, message, i) ==
  [progress |-> progress, message |-> message, iteration |-> i]

\* if <on>: progress_callback(...)
Report(log, on, entry) == IF on THEN Append(log, entry) ELSE log

\* mutant: the periodic report is made every 5th iteration
PeriodicReportDueFive(i) == i > 0 /\ i % 5 = 0

\* if iteration > 0: ... if progress_callback and iteration % 10 == 0
PeriodicReportDue(i) == i > 0 /\ i % 10 = 0

\* mutant: the percentage counts the iteration under way and is not capped
ProgressPercentUncapped(i, max_iterations) == ((i + 1) * 100) \div max_iterations

\* progress = min(95, int((iteration / max_iterations) * 100))
ProgressPercent(i, max_iterations) == Min(95, (i * 100) \div max_iterations)

\* mutant: the run starts from the approximate position of the observation file
InitialEstimateFromData(initial_pos, obs_data, nav_data) ==
  IF obs_data.approx_position # NoPosition THEN obs_data.approx_position
  ELSE initial_pos

\* x0, y0, z0 = initial_pos: obs_data and nav_data are not used
InitialEstimate(initial_pos, obs_data, nav_data) == initial_pos

(***************************************************************************)
(* Actions                                                                 *)
(***************************************************************************)
(* The application window: file selection, reading and the calculations   *)
(***************************************************************************)
\* no file selected (None)
NoFile == "none"

\* the observation files on disk: two whose header has an APPROX POSITION XYZ
\* line and one whose header has none
ObsFiles == {"north.obs", "south.obs", "bare.obs"}

NavFiles == {"brdc.nav"}

\* parse_rinex_header of an observation file: has_approx stands for
\* 'approx_position' in header; the position in km
ObsHeader(f) ==
  CASE f = "north.obs" -> [has_approx |-> TRUE, approx_position |-> <<2850, 2200, 5250>>]
    [] f = "south.obs" -> [has_approx |-> TRUE, approx_position |-> <<6378, 0, 0>>]
    [] f = "bare.obs" -> [has_approx |-> FALSE, approx_position |-> NoPosition]

\* self.obs_data = {} and self.nav_data = {}
NoObsData == [loaded |-> FALSE, file |-> NoFile,
              header |-> [has_approx |-> FALSE, approx_position |-> NoPosition]]

NoNavData == [loaded |-> FALSE, file |-> NoFile]

\* read_rinex_obs_file(filename): the dictionary returned
read_rinex_obs_file(f) == [loaded |-> TRUE, file |-> f, header |-> ObsHeader(f)]

\* read_rinex_nav_file(filename)
read_rinex_nav_file(f) == [loaded |-> TRUE, file |-> f]

\* AdvancedRinexConverter.__init__, lines 33-37
InitialApp ==
  [obs_data |-> NoObsData, nav_data |-> NoNavData, approx_position |-> NoPosition,
   current_obs_file |-> NoFile, current_nav_file |-> NoFile]

NoUse == [made |-> FALSE]

InitialAppLog == [lastObsRead |-> NoFile, used |-> NoUse]

\* select_obs_file: a file was chosen in the dialog
SelectObsFile ==
  /\ \E f \in ObsFiles : app' = [app EXCEPT !.current_obs_file = f]
  /\ UNCHANGED <<appLog, pppVars, llhVars, utilVars>>

\* select_nav_file: a file was chosen in the dialog
SelectNavFile ==
  /\ \E f \in NavFiles : app' = [app EXCEPT !.current_nav_file = f]
  /\ UNCHANGED <<appLog, pppVars, llhVars, utilVars>>

\* read_rinex_files, lines 261-285
ReadRinexFiles ==
  /\ LET obs == read_rinex_obs_file(app.current_obs_file)
         afterObs ==
           IF app.current_obs_file # NoFile
           THEN [app EXCEPT !.obs_data = obs,
                            !.approx_position =
                               IF obs.header.has_approx THEN obs.header.approx_position
                               ELSE @]
           ELSE app
         afterNav ==
           IF app.current_nav_file # NoFile
           THEN [afterObs EXCEPT !.nav_data = read_rinex_nav_file(app.current_nav_file)]
           ELSE afterObs
     IN  /\ app' = afterNav
         /\ appLog' = IF app.current_obs_file # NoFile
                      THEN [appLog EXCEPT !.lastObsRead = app.current_obs_file]
                      ELSE appLog
  /\ UNCHANGED <<pppVars, llhVars, utilVars>>

\* the approximate position a calculation starts from, and the observation
\* file that had been read last when it was taken
UseOf(by) ==
  [made |-> TRUE, by |-> by, position |-> app.approx_position,
   latest |-> appLog.lastObsRead]

\* quick_calculate, lines 317-327: x, y, z = self.approx_position
QuickCalculate ==
  /\ app.approx_position # NoPosition
  /\ appLog' = [appLog EXCEPT !.used = UseOf("quick_calculate")]
  /\ UNCHANGED <<app, pppVars, llhVars, utilVars>>

\* precise_calculate, lines 339-349, and calculate_ppp_position_enhanced,
\* lines 483-488: x0, y0, z0 = self.approx_position
PreciseCalculate ==
  /\ app.obs_data.loaded
  /\ app.approx_position # NoPosition
  /\ appLog' = [appLog EXCEPT !.used = UseOf("calculate_ppp_position_enhanced")]
  /\ UNCHANGED <<app, pppVars, llhVars, utilVars>>

(***************************************************************************)
Init ==
  /\ rng \in 0..(RngPeriod - 1)
  /\ satCalls = 0
  /\ pc = [r \in Runs |-> "idle"]
  /\ call = [r \in Runs |-> NoCall]
  /\ iteration = [r \in Runs |-> 0]
  /\ positions = [r \in Runs |-> <<>>]
  /\ residuals_history = [r \in Runs |-> <<>>]
  /\ convergence_data = [r \in Runs |-> <<>>]
  /\ weights = [r \in Runs |-> <<>>]
  /\ sink = [r \in Runs |-> <<>>]
  /\ result = [r \in Runs |-> [raised |-> "pending"]]
  /\ corrections = [r \in Runs |-> <<>>]
  /\ drawn = [r \in Runs |-> <<>>]
  /\ rngAtCall = [r \in Runs |-> 0]
  /\ overlap = FALSE
  /\ llh = NoConversion
  /\ lastReturn = NoReturn
  /\ invocation = NoInvocation
  /\ app = InitialApp
  /\ appLog = InitialAppLog

\* calculate_precise_position_enhanced, lines 45-55: entry up to the loop;
\* unpacking initial_pos = None raises TypeError before anything else
Call(r, positionChoices, iterationChoices, thresholdChoices, sinkChoices, dataChoices) ==
  /\ pc[r] = "idle"
  /\ \E p \in positionChoices, m \in iterationChoices,
        t \in thresholdChoices, cb \in sinkChoices, data \in dataChoices :
        /\ call' = [call EXCEPT ![r] =
                      [initial_pos |-> p, max_iterations |-> m,
                       convergence_threshold |-> t, progress_callback |-> cb,
                       obs_data |-> data.obs_data, nav_data |-> data.nav_data]]
        /\ IF p = NoPosition
           THEN /\ sink' = [sink EXCEPT ![r] = <<>>]
                /\ pc' = [pc EXCEPT ![r] = "failed"]
                /\ result' = [result EXCEPT ![r] = [raised |-> "TypeError"]]
           ELSE /\ sink' = [sink EXCEPT ![r] =
                              Report(<<>>, cb, ProgressCall(0, "start", -1))]
                /\ pc' = [pc EXCEPT ![r] = IF m > 0 THEN "loop" ELSE "analyze"]
                /\ UNCHANGED result
  /\ iteration' = [iteration EXCEPT ![r] = 0]
  /\ rngAtCall' = [rngAtCall EXCEPT ![r] = rng]
  /\ overlap' = (overlap \/ \E o \in Runs \ {r} : pc[o] \in {"loop", "analyze"})
  /\ UNCHANGED <<rng, satCalls, positions, residuals_history, convergence_data,
                 weights, corrections, drawn, llhVars, utilVars, appVars>>

\* calculate_precise_position_enhanced, lines 57-100: one pass of the loop body
Iterate(r) ==
  /\ pc[r] = "loop"
  /\ LET i == iteration[r]
         c == call[r]
         start == InitialEstimate(c.initial_pos, c.obs_data, c.nav_data)
         d == calculate_enhanced_corrections(i, start, c.max_iterations, rng)
         previous == IF positions[r] = <<>> THEN start
                     ELSE positions[r][Len(positions[r])]
         pos == CorrectedPosition(start, previous, d)
         residual == Norm3(d[1], d[2], d[3])
         pos_change == PositionChange(pos, previous)
         converged == ConvergenceReached(i, pos_change, c.convergence_threshold)
         periodic == Report(sink[r], c.progress_callback /\ PeriodicReportDue(i),
                            ProgressCall(ProgressPercent(i, c.max_iterations),
                                         "iteration", i))
     IN  /\ positions' = [positions EXCEPT ![r] = Append(@, pos)]
         /\ residuals_history' = [residuals_history EXCEPT ![r] = Append(@, residual)]
         /\ weights' = [weights EXCEPT ![r] =
                          Append(@, IterationWeight(i, c.max_iterations))]
         /\ convergence_data' = [convergence_data EXCEPT ![r] =
                                   RecordChange(i, @, pos_change)]
         /\ corrections' = [corrections EXCEPT ![r] = Append(@, d)]
         /\ sink' = [sink EXCEPT ![r] =
                       Report(periodic, c.progress_callback /\ converged,
                              ProgressCall(95, "converged", i))]
         /\ drawn' = [drawn EXCEPT ![r] =
                        @ \o [k \in 1..3 |-> GaussZ(RngAdvance(rng, k - 1))]]
         /\ rng' = RngAdvance(rng, 3)
         /\ iteration' = [iteration EXCEPT ![r] = IF converged THEN i ELSE i + 1]
         /\ pc' = [pc EXCEPT ![r] =
                     IF converged \/ i + 1 >= c.max_iterations THEN "analyze"
                     ELSE "loop"]
  /\ UNCHANGED <<satCalls, call, result, rngAtCall, overlap, llhVars, utilVars, appVars>>

\* calculate_precise_position_enhanced, lines 102-114: aggregation and return
Finish(r) ==
  /\ pc[r] = "analyze"
  /\ LET c == call[r]
         final_result == analyze_enhanced_results(positions[r], residuals_history[r],
                                                  convergence_data[r], weights[r])
         reported == Report(sink[r], c.progress_callback,
                            ProgressCall(98, "analysis", -1))
     IN  /\ result' = [result EXCEPT ![r] = final_result]
         /\ IF final_result.raised = "none"
            THEN /\ sink' = [sink EXCEPT ![r] =
                               Report(reported, c.progress_callback,
                                      ProgressCall(100, "done", -1))]
                 /\ pc' = [pc EXCEPT ![r] = "done"]
            ELSE /\ sink' = [sink EXCEPT ![r] = reported]
                 /\ pc' = [pc EXCEPT ![r] = "failed"]
  /\ UNCHANGED <<rng, satCalls, call, iteration, positions, residuals_history,
                 convergence_data, weights, corrections, drawn, rngAtCall, overlap,
                 llhVars, utilVars, appVars>>

\* calculate_satellite_position(nav_data, time, sv)
SatellitePosition ==
  /\ satCalls < MaxSatelliteCalls
  /\ satCalls' = satCalls + 1
  /\ \E known \in BOOLEAN : rng' = IF known THEN RngAdvance(rng, 3) ELSE rng
  /\ UNCHANGED <<pc, call, iteration, positions, residuals_history,
                 convergence_data, weights, sink, result, corrections, drawn,
                 rngAtCall, overlap, llhVars, utilVars, appVars>>
\* 0.002277 * (P0 + (1255/T0 + 0.05) * Rh0 * exp(-height/2200)) in units of
\* 1e-4 m, with P0 = 1013.25 * exp(-height/8400), T0 = 291.15 - 0.0065 * height
SaastamoinenZenith(height) ==
  CASE height = 0 -> 23121
    [] height = 1000 -> 20514
    [] height = 6357752 -> 0

\* tropospheric_correction(elevation, height): elevation in 1/1000 degree,
\* the delay in units of 1e-4 m
tropospheric_correction(elevation, height) ==
  LET elev_rad == Radians(elevation)
  IN  IF elev_rad > 0
      THEN RoundDiv(SaastamoinenZenith(height) * 10000, Sin(elev_rad))
      ELSE 0

\* ionospheric_correction: base_delay = 5.0 m times 1 / sin(elev_rad)
ionospheric_correction(elevation, azimuth, receiver_pos, time) ==
  IF elevation <= 0 THEN 0
  ELSE RoundDiv(50000 * 10000, Sin(Radians(elevation)))

\* mutant: only a satellite strictly below the horizon is cut off
BelowHorizonStrict(elevation) == elevation < 0

\* if elevation <= 0
BelowHorizon(elevation) == elevation <= 0

\* atmospheric_corrections; evaluated names the delay models that were called
atmospheric_corrections(elevation, azimuth, receiver_pos, time) ==
  IF BelowHorizon(elevation)
  THEN [tropospheric |-> 0, ionospheric |-> 0, evaluated |-> {}]
  ELSE [tropospheric |-> tropospheric_correction(elevation, receiver_pos[3]),
        ionospheric |-> ionospheric_correction(elevation, azimuth, receiver_pos, time),
        evaluated |-> {"tropospheric_correction", "ionospheric_correction"}]

\* elevation and azimuth in 1/1000 degree
Elevations == {-90000, -1, 0, 5000, 30000, 90000}

Azimuths == {0, 180000}

\* receiver_pos, ECEF in m: on the equator at height 0 and at height 1000 m,
\* 1000 m north of the equator at height 1000 m, and 1000 m above the pole;
\* the third component is what the code passes on as the height
ReceiverPositions ==
  {<<6378137, 0, 0>>, <<6379137, 0, 0>>, <<6379137, 0, 1000>>, <<0, 0, 6357752>>}

\* time, as an hour of the day
Times == {0, 12}

AtmosphericCall ==
  /\ \E elevation \in Elevations, azimuth \in Azimuths,
        receiver_pos \in ReceiverPositions, time \in Times :
        invocation' =
          [fn |-> "atmospheric_corrections",
           arg |-> [elevation |-> elevation, azimuth |-> azimuth,
                    receiver_pos |-> receiver_pos, time |-> time],
           value |-> atmospheric_corrections(elevation, azimuth, receiver_pos, time)]
  /\ UNCHANGED <<pppVars, llhVars, appVars>>


\* a line of a navigation file: its first character, its length, the text
\* of line[0:3].strip(), and (history) its index in the list
NavLine(first, length, sv, no) ==
  [first |-> first, length |-> length, sv |-> sv, no |-> no]

\* a list of n lines in which the lines at the indices in headers start an
\* ephemeris record and the other lines are indented data lines
NavLines(n, headers) ==
  [j \in 1..n |->
     IF (j - 1) \in headers
     THEN NavLine("G", 80, IF j = 1 THEN "G01" ELSE "G07", j - 1)
     ELSE NavLine(" ", 80, "", j - 1)]

\* len(line) > 5 and line[0] in ['G', 'R', 'E', 'C']
IsEphemerisHeader(line) == line.length > 5 /\ line.first \in {"G", "R", "E", "C"}

\* navigation_lines[a:b] for 0 <= a
Slice(lines, a, b) == SubSeq(lines, a + 1, Min(b, Len(lines)))

\* ephemeris[sv] = value
DictSet(dict, key, value) ==
  [k \in DOMAIN dict \cup {key} |-> IF k = key THEN value ELSE dict[k]]

\* parse_navigation_data, lines 266-286: the while loop from index i on;
\* header_index is (history) the index of the record's header line
RECURSIVE ParseNavigationFrom(_, _, _)
ParseNavigationFrom(navigation_lines, i, ephemeris) ==
  IF ~(i < Len(navigation_lines)) THEN ephemeris
  ELSE LET line == navigation_lines[i + 1]
       IN  IF IsEphemerisHeader(line)
           THEN LET next == i + 8
                IN  ParseNavigationFrom(
                      navigation_lines, next,
                      DictSet(ephemeris, line.sv,
                              [satellite |-> line.sv,
                               data_lines |-> Slice(navigation_lines, next - 7, next + 1),
                               header_index |-> i]))
           ELSE ParseNavigationFrom(navigation_lines, i + 1, ephemeris)

\* parse_navigation_data(navigation_lines)
parse_navigation_data(navigation_lines) ==
  ParseNavigationFrom(navigation_lines, 0, [k \in {} |-> 0])

\* the lists of lines parsed: empty, without a record, a cut-off record, one
\* whole record, two adjacent records, records after a leading line
NavigationInputs ==
  { NavLines(0, {}), NavLines(3, {}), NavLines(3, {0}), NavLines(8, {0}),
    NavLines(9, {0}), NavLines(16, {0, 8}), NavLines(17, {1, 9}),
    NavLines(12, {0, 4}), NavLines(10, {0, 8}) }

NavigationCall ==
  /\ \E navigation_lines \in NavigationInputs :
        invocation' = [fn |-> "parse_navigation_data", arg |-> navigation_lines,
                       value |-> parse_navigation_data(navigation_lines)]
  /\ UNCHANGED <<pppVars, llhVars, appVars>>

\* two samples a few units apart
SampleA == <<MkCoord(2850, 500), MkCoord(2200, 0), MkCoord(5250, 1)>>

SampleB == <<MkCoord(2850, 4500), MkCoord(2200, 300), MkCoord(5250, 0)>>

\* position histories handed to analyze_enhanced_results
PositionHistories ==
  { <<>>, <<SampleA>>, <<SampleB>>, <<SampleA, SampleA>>, <<SampleA, SampleB>>,
    <<SampleB, SampleB>>, <<SampleA, SampleA, SampleA>>, <<SampleB, SampleA, SampleB>> }

\* weight histories, in 1/1000: those of the loop, others, and all-zero ones
WeightHistories ==
  { <<>>, <<488>>, <<1000>>, <<0>>,
    <<475, 500>>, <<1000, 2000>>, <<300, 700>>, <<0, 0>>,
    <<463, 488, 512>>, <<1000, 1000, 2000>>, <<100, 200, 400>>, <<0, 0, 0>> }

\* a call analyze_enhanced_results(positions, residuals, convergence, weights)
AnalyzeCall ==
  /\ \E ps \in PositionHistories, ws \in WeightHistories :
        /\ Len(ws) = Len(ps)
        /\ LET residuals == [i \in 1..Len(ps) |-> 7500 \div i]
               convergence == [i \in 1..(Len(ps) - 1) |-> CoordSub(ps[i + 1][1], ps[i][1])]
           IN  invocation' =
                 [fn |-> "analyze_enhanced_results",
                  arg |-> [positions |-> ps, weights |-> ws],
                  value |-> analyze_enhanced_results(ps, residuals, convergence, ws)]
  /\ UNCHANGED <<pppVars, llhVars, appVars>>

(***************************************************************************)
(* Specifications                                                          *)
(***************************************************************************)
\* one refinement run, as the application makes it
CallRun == Call(1, InitialPositions, 0..MaxIterations, Thresholds, BOOLEAN, {ParsedData})

IterateRun == Iterate(1)

FinishRun == Finish(1)

Next == CallRun \/ IterateRun \/ FinishRun

Spec == Init /\ [][Next]_vars

\* two refinement runs and satellite-position calls sharing the process
CallShared ==
  \E r \in Runs :
    Call(r, {SurfacePosition}, 1..MaxSharedIterations, {1, 20000}, {FALSE}, {ParsedData})

IterateShared == \E r \in Runs : Iterate(r)

FinishShared == \E r \in Runs : Finish(r)

NextShared == CallShared \/ IterateShared \/ FinishShared \/ SatellitePosition

SpecShared == Init /\ [][NextShared]_vars

\* two runs made one after the other, each handed one of the two data sets
CallData ==
  \E r \in Runs :
    /\ \A o \in Runs \ {r} : pc[o] \in {"idle", "done", "failed"}
    /\ Call(r, {OriginPosition, SurfacePosition}, 1..MaxDataIterations, {1, 20000},
            {FALSE}, {NoData, ParsedData})

NextData == CallData \/ IterateShared \/ FinishShared

SpecData == Init /\ [][NextData]_vars

\* successive coordinate conversions
NextLLH == LLHCall \/ LLHRoundTrip \/ LLHIterate \/ LLHReturn \/ LLHNext

InitLLH == Init /\ rng = 0

SpecLLH == InitLLH /\ [][NextLLH]_vars

\* direct calls of the stateless methods
NextApp ==
  SelectObsFile \/ SelectNavFile \/ ReadRinexFiles \/ QuickCalculate \/ PreciseCalculate

SpecApp == InitLLH /\ [][NextApp]_vars

NextUtil ==
  DmsCall \/ EllipsoidCall \/ AnalyzeCall \/ AtmosphericCall \/ NavigationCall

SpecUtil == InitLLH /\ [][NextUtil]_vars

(***************************************************************************)
(* Claims about the refinement engine                                      *)
(***************************************************************************)
Started(r) == pc[r] # "idle"

Returned(r) == pc[r] = "done"

\* the first computed displacement of run r is below its threshold
FirstDisplacementBelowThreshold(r) ==
  /\ Len(convergence_data[r]) >= 1
  /\ convergence_data[r][1] < call[r].convergence_threshold

\* a sequence of weights (in 1/1000) sums to 1, up to the rounding of its terms
SumsToOne(ws) == Abs(SumSeq(ws) - 1000) <= Len(ws)

\* C2: a call with max_iterations = 0 fails and does no partial work: before
\* the failure no sample is generated, no random number is drawn and the
\* progress sink is not invoked.
C2_ZeroIterationsNoPartialWork ==
  \A r \in Runs :
    (Started(r) /\ call[r].max_iterations = 0) =>
      /\ pc[r] # "done"
      /\ positions[r] = <<>>
      /\ drawn[r] = <<>>
      /\ sink[r] = <<>>

\* C3: two runs with identical arguments, executed one after the other with no
\* other use of the generator, return identical position, residual,
\* convergence and weight histories.
C3_SameArgumentsSameHistories ==
  (Returned(1) /\ Returned(2) /\ call[1] = call[2] /\ ~overlap /\ satCalls = 0) =>
    /\ positions[1] = positions[2]
    /\ result[1].residuals_history = result[2].residuals_history
    /\ result[1].convergence_history = result[2].convergence_history
    /\ result[1].weights = result[2].weights

\* C4: under any interleaving of two runs and satellite-position calls, the
\* stochastic components a run has drawn are those it draws when it executes
\* alone from the generator state it was called in.
C4_DrawsAsWhenAlone ==
  \A r \in Runs :
    drawn[r] = [k \in 1..Len(drawn[r]) |-> GaussZ(RngAdvance(rngAtCall[r], k - 1))]

\* C5 as stated: with max_iterations >= 2 and a threshold above the first
\* displacement, the estimate reports 1 iteration and one convergence entry.
C5_EarlyStopReportsOneIteration ==
  \A r \in Runs :
    (Returned(r) /\ call[r].max_iterations >= 2 /\ FirstDisplacementBelowThreshold(r)) =>
      /\ result[r].iterations = 1
      /\ Len(result[r].convergence_history) = 1

\* C5 amended: with max_iterations >= 2 and a threshold above the first
\* displacement, the loop stops right after iteration index 1 and the estimate
\* reports 2 iterations (iteration 1 and the zero-index sample: the number of
\* samples), with exactly one convergence entry.
C5_EarlyStopReportsTwoSamples ==
  \A r \in Runs :
    (Returned(r) /\ call[r].max_iterations >= 2 /\ FirstDisplacementBelowThreshold(r)) =>
      /\ iteration[r] = 1
      /\ Len(positions[r]) = 2
      /\ result[r].iterations = 2
      /\ Len(result[r].convergence_history) = 1

C5_Witness ==
  /\ Returned(1)
  /\ call[1].max_iterations >= 3
  /\ FirstDisplacementBelowThreshold(1)
  /\ result[1].iterations = 2

\* C6: sample 0 is initial_pos plus correction 0 and every later sample is the
\* previous sample plus the correction of its iteration.
C6_CorrectionsAccumulate ==
  \A r \in Runs : \A n \in 1..Len(positions[r]) :
    positions[r][n] =
      [k \in 1..3 |->
         CoordAdd(IF n = 1 THEN call[r].initial_pos[k] ELSE positions[r][n - 1][k],
                  corrections[r][n][k])]

C8_HistoryLengths ==
  \A r \in Runs :
    /\ positions[r] # <<>> =>
          /\ Len(convergence_data[r]) = Len(positions[r]) - 1
          /\ Len(residuals_history[r]) = Len(positions[r])
          /\ Len(weights[r]) = Len(positions[r])
    /\ Returned(r) =>
          /\ result[r].iterations = Len(positions[r])
          /\ Len(result[r].convergence_history) = result[r].iterations - 1
          /\ Len(result[r].residuals_history) = result[r].iterations
          /\ Len(result[r].weights) = result[r].iterations

C8_Witness ==
  /\ Returned(1)
  /\ result[1].iterations >= 3
  /\ Len(result[1].convergence_history) = result[1].iterations - 1

(***************************************************************************)
(* Claims about the coordinate converter                                   *)
(***************************************************************************)
\* C1: xyz_to_llh_high_precision(0, 0, z) with z > 0 and the default
\* max_iterations and tolerance raises no exception and returns latitude 90.
C1_PoleReturnsLatitude90 ==
  (/\ llh.pc # "idle"
   /\ llh.x = 0 /\ llh.y = 0 /\ llh.z > 0
   /\ llh.max_iterations = DefaultMaxIterations /\ llh.tolerance = 1) =>
    /\ llh.pc # "raised"
    /\ llh.pc = "returned" => ReturnedTuple(llh)[1] = 90000

\* C9: the returned value tells whether the tolerance was met: a call that
\* exhausted max_iterations and a call that met the tolerance on iteration
\* number max_iterations never return the same value.
C9_ExhaustionObservable ==
  (/\ llh.pc = "returned"
   /\ lastReturn.made
   /\ lastReturn.max_iterations = llh.max_iterations
   /\ lastReturn.value[4] = lastReturn.max_iterations
   /\ llh.iteration_count = llh.max_iterations
   /\ lastReturn.converged # llh.converged) =>
    lastReturn.value # ReturnedTuple(llh)

\* C10: every returned longitude lies in [-180, 180) degrees and every
\* returned latitude in [-90, 90] degrees.
C10_AnglesNormalized ==
  llh.pc = "returned" =>
    /\ ReturnedTuple(llh)[2] >= -180000 /\ ReturnedTuple(llh)[2] < 180000
    /\ ReturnedTuple(llh)[1] >= -90000 /\ ReturnedTuple(llh)[1] <= 90000

\* C11: for latitude in (-90, 90), longitude in [-180, 180) and height in
\* [-1, 100] km, converting llh_to_xyz(lat, lon, h) back with the default
\* max_iterations and tolerance raises nothing and reproduces lat, lon and h
\* (here: within 20/1000 degree and 5 km, a few resolution steps of the model).
C11_RoundTripReproduces ==
  (llh.pc \in {"returned", "raised"} /\ llh.origin.given) =>
    /\ llh.pc = "returned"
    /\ Abs(ReturnedTuple(llh)[1] - llh.origin.lat) <= 20
    /\ Abs(ReturnedTuple(llh)[2] - llh.origin.lon) <= 20
    /\ Abs(ReturnedTuple(llh)[3] - llh.origin.h) <= 5

\* C22: a conversion called with max_iterations < 1 or tolerance <= 0 ends
\* with InvalidParameterError, raised before any pass of the loop; it raises
\* no other error and returns no result.
C22_InvalidConversionArgumentsRejected ==
  (llh.pc \in {"returned", "raised"}
     /\ (llh.max_iterations < 1 \/ llh.tolerance <= 0)) =>
       /\ llh.pc = "raised"
       /\ llh.error = "InvalidParameterError"
       /\ llh.iteration_count = 0

\* C28: on both exits of the latitude loop the returned height is the one
\* computed from the returned latitude: h = p / cos(lat) - N(lat) for the lat
\* that is converted to degrees and returned.
C28_HeightOfReturnedLatitude ==
  llh.pc = "returned" =>
    llh.h = HeightAbove(llh.p, llh.lat_prev, CurvatureRadius(llh.lat_prev))

(***************************************************************************)
(* Claims about the stateless methods                                      *)
(***************************************************************************)
RECURSIVE Before(_, _)
\* the characters of a text before the first occurrence of c
Before(chars, c) ==
  IF chars = <<>> \/ Head(chars) = c THEN <<>>
  ELSE <<Head(chars)>> \o Before(Tail(chars), c)

RECURSIVE From(_, _)
\* the characters of a text from the first occurrence of c on
From(chars, c) ==
  IF chars = <<>> \/ Head(chars) = c THEN chars ELSE From(Tail(chars), c)

\* C12: for every value v <= -1 the degree field of decimal_to_dms(v) is the
\* minus sign followed by |v| truncated toward zero, and the minutes and
\* seconds fields are those produced for |v|.
C12_NegativeKeepsSignAndFields ==
  (invocation.fn = "decimal_to_dms" /\ invocation.arg <= -DegreeUnits) =>
    /\ Before(invocation.value, "deg")
         = <<"-">> \o Digits(TruncDiv(-invocation.arg, DegreeUnits))
    /\ From(invocation.value, "deg") = From(decimal_to_dms(-invocation.arg), "deg")

C12_Witness ==
  /\ invocation.fn = "decimal_to_dms"
  /\ invocation.arg = -(45 * DegreeUnits + 5000000)
  /\ invocation.value
       = <<"-", "4", "5", "deg", " ", "3", "0", "'", " ", "0", "0", ".", "0", "0", "0", "\"">>

\* the value of a decimal digit character
DigitValue(c) == CHOOSE k \in 0..9 : DigitChars[k + 1] = c

IsDigit(c) == \E k \in 0..9 : DigitChars[k + 1] = c

\* the number written by a sequence of digit characters
RECURSIVE Number(_)
Number(chars) ==
  IF chars = <<>> THEN 0
  ELSE Number(SubSeq(chars, 1, Len(chars) - 1)) * 10 + DigitValue(chars[Len(chars)])

\* the three fields of a text produced by decimal_to_dms
DegreeField(text) == Before(text, "deg")

MinutesField(text) == Before(Tail(Tail(From(text, "deg"))), "'")

SecondsField(text) == Before(Tail(Tail(From(text, "'"))), "\"")

\* C23: for every v with -1 < v < 0 the text returned by decimal_to_dms is
\* the text returned for -v: the degree field is 00 and there is no minus sign.
C23_SignLostBelowOneDegree ==
  (invocation.fn = "decimal_to_dms"
     /\ -DegreeUnits < invocation.arg /\ invocation.arg < 0) =>
       /\ invocation.value = decimal_to_dms(-invocation.arg)
       /\ DegreeField(invocation.value) = <<"0", "0">>
       /\ \A j \in 1..Len(invocation.value) : invocation.value[j] # "-"

\* C23 witness: the call decimal_to_dms(-0.5)
C23_Witness ==
  /\ invocation.fn = "decimal_to_dms"
  /\ invocation.arg = -5000000
  /\ invocation.value
       = <<"0", "0", "deg", " ", "3", "0", "'", " ", "0", "0", ".", "0", "0", "0", "\"">>

\* C24: for |v| < 100 the degree field has two zero-padded digits, preceded
\* by a minus sign when negative, the minutes field exactly two digits and
\* the seconds field two integer digits and 3 decimals.
C24_FixedWidthFields ==
  (invocation.fn = "decimal_to_dms"
     /\ Abs(invocation.arg) < 100 * DegreeUnits) =>
       LET d == DegreeField(invocation.value)
           digits == IF d # <<>> /\ d[1] = "-" THEN Tail(d) ELSE d
           mins == MinutesField(invocation.value)
           secs == SecondsField(invocation.value)
       IN  /\ Len(digits) = 2 /\ \A j \in 1..2 : IsDigit(digits[j])
           /\ Len(mins) = 2 /\ \A j \in 1..2 : IsDigit(mins[j])
           /\ Len(secs) = 6 /\ secs[3] = "."
           /\ \A j \in {1, 2, 4, 5, 6} : IsDigit(secs[j])

\* C27: the text returned by decimal_to_dms is a valid sexagesimal value: the
\* minutes field is in 00..59 and the printed seconds are below 60.000.
C27_ValidSexagesimal ==
  invocation.fn = "decimal_to_dms" =>
    /\ Number(MinutesField(invocation.value)) \in 0..59
    /\ Number(Before(SecondsField(invocation.value), ".")) < 60

\* C13: for the covariance s^2 * I(3), s >= 0, calculate_accuracy_ellipsoid
\* returns three semi-axes equal to s, the volume (4/3) * pi * s^3, and
\* max_error = min_error = s.
C13_ScaledIdentityEllipsoid ==
  \A sigma \in 0..MaxSigma :
    (invocation.fn = "calculate_accuracy_ellipsoid"
       /\ invocation.arg = ScaledIdentity(sigma)) =>
      /\ invocation.value.semi_axes = [k \in 1..3 |-> Real(sigma)]
      /\ invocation.value.volume = Real(RoundDiv(4 * Pi * sigma * sigma * sigma, 3))
      /\ invocation.value.max_error = Real(sigma)
      /\ invocation.value.min_error = Real(sigma)

C13_Witness ==
  /\ invocation.fn = "calculate_accuracy_ellipsoid"
  /\ invocation.arg = ScaledIdentity(7)
  /\ invocation.value.semi_axes = <<Real(7), Real(7), Real(7)>>
  /\ invocation.value.volume.v > 0

\* C14: for every symmetric covariance with a negative eigenvalue the
\* corresponding semi-axis is 0, and every semi-axis, the volume, max_error
\* and min_error are finite numbers (no NaN).
C14_NegativeEigenvaluesClamped ==
  invocation.fn = "calculate_accuracy_ellipsoid" =>
    /\ \A k \in 1..3 :
         /\ ~invocation.value.semi_axes[k].nan
         /\ Eigenvalues(invocation.arg)[k] < 0 => invocation.value.semi_axes[k] = Real(0)
    /\ ~invocation.value.volume.nan
    /\ ~invocation.value.max_error.nan
    /\ ~invocation.value.min_error.nan

\* C15: when every sample of a non-empty history has the same position and
\* the weights are positive, the weighted mean is that position, the weighted
\* standard deviation is 0 on each axis and the precision is 0.
C15_IdenticalSamplesZeroSpread ==
  (/\ invocation.fn = "analyze_enhanced_results"
   /\ invocation.arg.positions # <<>>
   /\ \A i \in 1..Len(invocation.arg.positions) :
        /\ invocation.arg.positions[i] = invocation.arg.positions[1]
        /\ invocation.arg.weights[i] > 0) =>
    /\ invocation.value.raised = "none"
    /\ invocation.value.position = invocation.arg.positions[1]
    /\ invocation.value.std_deviation = <<Real(0), Real(0), Real(0)>>
    /\ invocation.value.precision = Real(0)

\* C18: the aggregation fails with DegenerateWeightError whenever the sum of
\* the supplied weights is zero; it returns no estimate computed from them.
C18_ZeroWeightSumFails ==
  (/\ invocation.fn = "analyze_enhanced_results"
   /\ invocation.arg.positions # <<>>
   /\ SumSeq(invocation.arg.weights) = 0) =>
    invocation.value.raised = "DegenerateWeightError"

\* C19: atmospheric_corrections returns 0 for both components for every
\* elevation <= 0, whatever the azimuth, receiver position and time, and
\* evaluates neither delay model.
C19_BelowHorizonZeroWithoutModels ==
  (invocation.fn = "atmospheric_corrections" /\ invocation.arg.elevation <= 0) =>
     /\ invocation.value.tropospheric = 0
     /\ invocation.value.ionospheric = 0
     /\ invocation.value.evaluated = {}

\* C19 witness: a call at elevation exactly 0 for a receiver at height 1000 m
C19_Witness ==
  /\ invocation.fn = "atmospheric_corrections"
  /\ invocation.arg.elevation = 0
  /\ invocation.arg.receiver_pos[3] = 1000
  /\ invocation.value.tropospheric = 0
  /\ invocation.value.ionospheric = 0

\* the height above the ellipsoid, in m, of the receiver positions tried
\* (semi-axes 6378137 m and 6356752 m)
EllipsoidalHeight(receiver_pos) ==
  IF receiver_pos = <<6378137, 0, 0>> THEN 0 ELSE 1000

\* C25: the tropospheric delay is computed with the receiver's height above
\* the ellipsoid, so two receiver positions with the same height and the same
\* elevation get the same delay whatever their ECEF z coordinate.
C25_TroposphereUsesHeight ==
  (invocation.fn = "atmospheric_corrections" /\ invocation.arg.elevation > 0) =>
     LET a == invocation.arg
     IN  /\ invocation.value.tropospheric
              = tropospheric_correction(a.elevation, EllipsoidalHeight(a.receiver_pos))
         /\ \A q \in ReceiverPositions :
              EllipsoidalHeight(q) = EllipsoidalHeight(a.receiver_pos) =>
                atmospheric_corrections(a.elevation, a.azimuth, q, a.time).tropospheric
                  = invocation.value.tropospheric

\* C30: parse_navigation_data terminates, and the data_lines stored for a
\* record whose header is at index k start at line k and do not include line
\* k + 8, at which scanning resumes.
C30_DataLinesOfOwnRecord ==
  invocation.fn = "parse_navigation_data" =>
    \A sv \in DOMAIN invocation.value :
      LET record == invocation.value[sv]
          k == record.header_index
      IN  /\ record.data_lines # <<>> => record.data_lines[1].no = k
          /\ \A j \in 1..Len(record.data_lines) : record.data_lines[j].no # k + 8

(***************************************************************************)
(* Claims about the progress sink and the arguments of a refinement run    *)
(***************************************************************************)

\* the loop of run r was left by the break of lines 94-98
StoppedEarly(r) ==
  /\ convergence_data[r] # <<>>
  /\ convergence_data[r][Len(convergence_data[r])] < call[r].convergence_threshold

\* C16: in a run with a progress sink that returns an estimate, the first
\* sink call carries 0, the last carries 100, no call before the last carries
\* 100, an early stop is reported by a sink call, and the other calls made
\* from inside the loop occur only at positive multiples of 10.
C16_ProgressCallsOrdered ==
  (Returned(1) /\ call[1].progress_callback) =>
     LET log == sink[1]
         n == Len(log)
     IN  /\ n >= 2
         /\ log[1].progress = 0
         /\ log[n].progress = 100
         /\ \A j \in 1..(n - 1) : log[j].progress < 100
         /\ StoppedEarly(1) =>
              \E j \in 1..n : /\ log[j].message = "converged"
                              /\ log[j].iteration = Len(positions[1]) - 1
         /\ \A j \in 1..n :
              log[j].message = "iteration" =>
                log[j].iteration > 0 /\ log[j].iteration % 10 = 0

\* C16 witness: a returned run that reported from inside the loop at
\* iteration 10 and then reported completion
C16_Witness ==
  /\ Returned(1)
  /\ call[1].progress_callback
  /\ \E j \in 1..Len(sink[1]) :
       sink[1][j].message = "iteration" /\ sink[1][j].iteration = 10
  /\ sink[1][Len(sink[1])].progress = 100

\* C26: in every run with a progress sink the percentages passed to the sink
\* are non-decreasing from the first call to the last.
C26_ProgressNonDecreasing ==
  \A j \in 1..(Len(sink[1]) - 1) : sink[1][j].progress <= sink[1][j + 1].progress

\* C26 witness: a returned run in which the early-stop report directly
\* follows a periodic report
C26_Witness ==
  /\ Returned(1)
  /\ \E j \in 1..(Len(sink[1]) - 1) :
       /\ sink[1][j].message = "iteration"
       /\ sink[1][j + 1].message = "converged"
  /\ sink[1][Len(sink[1])].message = "done"

\* C17: a call with convergence_threshold <= 0 or without an initial position
\* fails with InvalidParameterError before any iteration is executed.
C17_InvalidArgumentsRejected ==
  (Started(1) /\ (call[1].convergence_threshold <= 0
                  \/ call[1].initial_pos = NoPosition)) =>
     /\ pc[1] = "failed"
     /\ result[1].raised = "InvalidParameterError"
     /\ positions[1] = <<>>

\* the arguments of the two runs other than obs_data and nav_data agree
SameNumericArguments ==
  /\ call[1].initial_pos = call[2].initial_pos
  /\ call[1].max_iterations = call[2].max_iterations
  /\ call[1].convergence_threshold = call[2].convergence_threshold

HeaderPosition(f) ==
  IF ObsHeader(f).has_approx THEN ObsHeader(f).approx_position ELSE NoPosition

\* C29: after any sequence of file selections and reads, approx_position is
\* the approximate position of the observation file read most recently and
\* is unset when its header has none; a calculation never starts from the
\* position of a file loaded before.
C29_ApproxPositionOfLatestFile ==
  /\ appLog.lastObsRead # NoFile =>
       app.approx_position = HeaderPosition(appLog.lastObsRead)
  /\ (appLog.used.made /\ appLog.used.latest # NoFile) =>
       appLog.used.position = HeaderPosition(appLog.used.latest)

====
